---- MODULE Spec2Model ----
(***************************************************************************)
(* DataFrameDescriber (src/src/backend/fusion/describe.rs): try_new        *)
(* normalises a dataset, describe() folds one zero-group aggregation per   *)
(* method into a labelled report, casts it back and sorts it.              *)
(*                                                                         *)
(* A DataFrame is [names, types, rows]; rows are sequences of cells.  A    *)
(* cell is [v, list, s, isnull, fn, p]: v is the numeric value, list the   *)
(* elements of a list value, s the characters of a text value, isnull the  *)
(* null flag, fn the aggregate (or "value"/"lit") that produced it and p   *)
(* the percentile argument.  Values of avg, stddev, median and             *)
(* approx_percentile_cont are left uninterpreted (v = 0, fn names them).   *)
(***************************************************************************)
EXTENDS Integers, Sequences, FiniteSets, TLC

VARIABLES
    input,        \* the DataFrame handed to try_new or to a helper
    pc,           \* where the caller stands
    original,     \* DataFrameDescriber.original
    transformed,  \* DataFrameDescriber.transformed
    methods,      \* DataFrameDescriber.methods
    folded,       \* the DataFrame do_describe returned
    statNames,    \* column names of each stat_df of the last fold
    report,       \* the DataFrame describe() returned
    prev,         \* <<report of the previous successful call>>, or <<>>
    cause,        \* the error of the last failing call
    helperOut     \* the Result of a helper called on input

vars == <<input, pc, original, transformed, methods, folded, statNames,
          report, prev, cause, helperOut>>

\* Bounds of the explored inputs.
MaxCols == 2
MaxRows == 2
FixedSize == 2

(***************************************************************************)
(* Sequences and text                                                      *)
(***************************************************************************)
Range(s) == {s[i] : i \in 1..Len(s)}

HasDup(s) == \E i, j \in 1..Len(s) : i < j /\ s[i] = s[j]

IndexOf(s, x) == CHOOSE i \in 1..Len(s) : s[i] = x /\ \A j \in 1..(i-1) : s[j] # x

Reverse(s) == [i \in 1..Len(s) |-> s[Len(s) + 1 - i]]

\* The characters of the labels, in ascending byte order.
Alphabet == <<"0", "1", "2", "3", "4", "5", "6", "7", "8", "9", "_",
              "a", "b", "c", "d", "e", "f", "g", "h", "i", "j", "k", "l", "m",
              "n", "o", "p", "q", "r", "s", "t", "u", "v", "w", "x", "y", "z">>

CodeOf == [c \in Range(Alphabet) |-> IndexOf(Alphabet, c)]

Code(c) == CodeOf[c]

\* Byte-wise lexicographic order of two texts.
StrLess(a, b) ==
    \E i \in 1..Len(b) :
        /\ \A j \in 1..(i-1) : j <= Len(a) /\ a[j] = b[j]
        /\ \/ i = Len(a) + 1
           \/ i <= Len(a) /\ Code(a[i]) < Code(b[i])

\* Decimal rendering of a natural number ("{}" of an integer).
RECURSIVE Digits(_)
Digits(n) ==
    IF n < 10 THEN <<Alphabet[n + 1]>>
    ELSE Digits(n \div 10) \o <<Alphabet[(n % 10) + 1]>>

RECURSIVE Concat(_)
Concat(ss) == IF ss = <<>> THEN <<>> ELSE Head(ss) \o Concat(Tail(ss))

(***************************************************************************)
(* arrow DataType, as far as the code inspects it                          *)
(***************************************************************************)
TemporalTypes == {"Timestamp", "Date32"}
NumericTypes == {"Int32", "Int64", "UInt64", "Float64"}
ListTypes == {"List", "LargeList"}

is_temporal(dt) == dt \in TemporalTypes
is_numeric(dt) == dt \in NumericTypes

(***************************************************************************)
(* Cells and frames                                                        *)
(***************************************************************************)
Cell(v, list, s, isnull, fn, p) ==
    [v |-> v, list |-> list, s |-> s, isnull |-> isnull, fn |-> fn, p |-> p]

NullCell == Cell(0, <<>>, <<>>, TRUE, "value", 0)
NumCell(v) == Cell(v, <<>>, <<>>, FALSE, "value", 0)

Frame(names, types, rows) == [names |-> names, types |-> types, rows |-> rows]
NoFrame == Frame(<<>>, <<>>, <<>>)

Ok(df) == [ok |-> TRUE, df |-> df, cause |-> ""]
Err(why) == [ok |-> FALSE, df |-> NoFrame, cause |-> why]

TypeOf(df, name) == df.types[IndexOf(df.names, name)]

(***************************************************************************)
(* Expressions of the engine, as the code builds them                      *)
(***************************************************************************)
\* col(s) reads s as an identifier: an unquoted identifier is folded to lower
\* case.  "A" is the one name of the model with an upper-case letter.
ParseIdent(s) == IF s = "A" THEN "a" ELSE s

col(name) == [op |-> "col", name |-> ParseIdent(name)]
lit(s) == [op |-> "lit", s |-> s]
cast(e, dt) == [op |-> "cast", arg |-> e, to |-> dt]
array_length(e) == [op |-> "array_length", arg |-> e]
length(e) == [op |-> "length", arg |-> e]
is_null(e) == [op |-> "is_null", arg |-> e]
\* case(e).when(lit(true), lit(a)).otherwise(lit(b))
case_when_true(e, a, b) == [op |-> "case", arg |-> e, then |-> a, else |-> b]
alias(e, name) == [op |-> "alias", arg |-> e, name |-> name]

count(e) == [op |-> "count", arg |-> e, p |-> 0]
sum(e) == [op |-> "sum", arg |-> e, p |-> 0]
avg(e) == [op |-> "avg", arg |-> e, p |-> 0]
stddev(e) == [op |-> "stddev", arg |-> e, p |-> 0]
min(e) == [op |-> "min", arg |-> e, p |-> 0]
max(e) == [op |-> "max", arg |-> e, p |-> 0]
median(e) == [op |-> "median", arg |-> e, p |-> 0]
\* the level is carried in hundredths: lit(p as f64 / 100.0) is p
approx_percentile_cont(e, p) == [op |-> "approx_percentile_cont", arg |-> e, p |-> p]

Apply(fn, e) ==
    CASE fn = "count" -> count(e)
      [] fn = "avg" -> avg(e)
      [] fn = "stddev" -> stddev(e)
      [] fn = "min" -> min(e)
      [] fn = "max" -> max(e)
      [] fn = "median" -> median(e)

RECURSIVE ExprName(_)
ExprName(e) ==
    CASE e.op \in {"alias", "col"} -> e.name
      [] e.op = "lit" -> "lit"
      [] OTHER -> ExprName(e.arg)

RECURSIVE Refs(_)
Refs(e) ==
    CASE e.op = "col" -> {e.name}
      [] e.op = "lit" -> {}
      [] OTHER -> Refs(e.arg)

RECURSIVE ExprType(_, _)
ExprType(e, df) ==
    CASE e.op = "col" -> TypeOf(df, e.name)
      [] e.op = "lit" -> "Utf8"
      [] e.op = "cast" -> e.to
      [] e.op = "array_length" -> "UInt64"
      [] e.op = "length" -> "Int32"
      [] e.op = "is_null" -> "Boolean"
      [] e.op = "case" -> "Int32"
      [] e.op = "alias" -> ExprType(e.arg, df)
      [] e.op \in {"count", "sum"} -> "Int64"
      [] e.op \in {"avg", "stddev"} -> "Float64"
      [] OTHER -> ExprType(e.arg, df)

\* Text form of a value (cast to Utf8): a text is itself, a number its
\* digits, a list "[e1, e2, ...]".
ListText(list) ==
    <<"[">> \o Concat([i \in 1..Len(list) |->
                 (IF i = 1 THEN <<>> ELSE <<",", " ">>) \o Digits(list[i])])
            \o <<"]">>

ToText(c, dt) ==
    IF dt = "Utf8" THEN c.s
    ELSE IF dt \in ListTypes \cup {"FixedSizeList"} THEN ListText(c.list)
    ELSE Digits(c.v)

RECURSIVE Eval(_, _, _)
Eval(e, df, row) ==
    CASE e.op = "col" -> row[IndexOf(df.names, e.name)]
      [] e.op = "lit" -> Cell(0, <<>>, e.s, FALSE, "lit", 0)
      [] e.op = "alias" -> Eval(e.arg, df, row)
      [] e.op = "is_null" -> NumCell(IF Eval(e.arg, df, row).isnull THEN 1 ELSE 0)
      [] e.op = "case" ->
            NumCell(IF Eval(e.arg, df, row).v = 1 THEN e.then ELSE e.else)
      [] OTHER ->
            LET c == Eval(e.arg, df, row) IN
            IF c.isnull THEN NullCell
            ELSE CASE e.op = "array_length" -> NumCell(Len(c.list))
                   [] e.op = "length" -> NumCell(Len(c.s))
                   [] e.op = "cast" ->
                        IF e.to = "Utf8"
                        THEN Cell(0, <<>>, ToText(c, ExprType(e.arg, df)), FALSE, "value", 0)
                        ELSE c

RECURSIVE SumV(_)
SumV(cs) == IF cs = <<>> THEN 0 ELSE Head(cs).v + SumV(Tail(cs))

MinV(cs) == CHOOSE m \in {cs[i].v : i \in 1..Len(cs)} : \A i \in 1..Len(cs) : m <= cs[i].v
MaxV(cs) == CHOOSE m \in {cs[i].v : i \in 1..Len(cs)} : \A i \in 1..Len(cs) : m >= cs[i].v

IsNonNull(c) == ~c.isnull

\* One aggregate over all rows of df (no grouping).
RECURSIVE AggEval(_, _)
AggEval(e, df) ==
    IF e.op = "alias" THEN AggEval(e.arg, df)
    ELSE
      LET inputs == [r \in 1..Len(df.rows) |-> Eval(e.arg, df, df.rows[r])]
          nonnull == SelectSeq(inputs, IsNonNull)
      IN CASE e.op = "count" -> Cell(Len(nonnull), <<>>, <<>>, FALSE, "count", 0)
           [] e.op = "sum" ->
                Cell(SumV(nonnull), <<>>, <<>>, nonnull = <<>>, "sum", 0)
           [] e.op = "min" ->
                IF nonnull = <<>> THEN Cell(0, <<>>, <<>>, TRUE, "min", 0)
                ELSE Cell(MinV(nonnull), <<>>, <<>>, FALSE, "min", 0)
           [] e.op = "max" ->
                IF nonnull = <<>> THEN Cell(0, <<>>, <<>>, TRUE, "max", 0)
                ELSE Cell(MaxV(nonnull), <<>>, <<>>, FALSE, "max", 0)
           [] e.op = "stddev" ->
                Cell(0, <<>>, <<>>, Len(nonnull) < 2, "stddev", 0)
           [] OTHER -> Cell(0, <<>>, <<>>, nonnull = <<>>, e.op, e.p)

(***************************************************************************)
(* DataFrame operations of the engine used by the code                     *)
(***************************************************************************)
\* DataFrame::select: a projection; fails on an unknown column or on two
\* output columns of the same name.
Select(df, exprs) ==
    LET names == [i \in 1..Len(exprs) |-> ExprName(exprs[i])] IN
    IF \E i \in 1..Len(exprs) : ~(Refs(exprs[i]) \subseteq Range(df.names))
    THEN Err("select: no such column")
    ELSE IF HasDup(names) THEN Err("select: duplicate output name")
    ELSE Ok(Frame(names,
                  [i \in 1..Len(exprs) |-> ExprType(exprs[i], df)],
                  [r \in 1..Len(df.rows) |->
                      [i \in 1..Len(exprs) |-> Eval(exprs[i], df, df.rows[r])]]))

\* DataFrame::aggregate(vec![], aggr): one row; fails when there is neither
\* a grouping nor an aggregate expression.
Aggregate(df, aggr) ==
    LET names == [i \in 1..Len(aggr) |-> ExprName(aggr[i])] IN
    IF aggr = <<>> THEN Err("aggregate: no grouping or aggregate expression")
    ELSE IF \E i \in 1..Len(aggr) : ~(Refs(aggr[i]) \subseteq Range(df.names))
    THEN Err("aggregate: no such column")
    ELSE Ok(Frame(names,
                  [i \in 1..Len(aggr) |-> ExprType(aggr[i], df)],
                  <<[i \in 1..Len(aggr) |-> AggEval(aggr[i], df)]>>))

Coerce(a, b) ==
    IF a = b THEN a
    ELSE IF "Utf8" \in {a, b} THEN "Utf8"
    ELSE IF "Float64" \in {a, b} THEN "Float64"
    ELSE "Int64"

\* DataFrame::union: by position; fails when the column counts differ.
Union(l, r) ==
    IF Len(l.names) # Len(r.names) THEN Err("union: different number of columns")
    ELSE Ok(Frame(l.names,
                  [i \in 1..Len(l.names) |-> Coerce(l.types[i], r.types[i])],
                  l.rows \o r.rows))

\* DataFrame::sort on one text column: col(name).sort(asc, nulls_first).
RECURSIVE Insert(_, _, _, _)
Insert(row, sorted, k, asc) ==
    IF sorted = <<>> THEN <<row>>
    ELSE LET before == IF asc THEN StrLess(row[k].s, Head(sorted)[k].s)
                       ELSE StrLess(Head(sorted)[k].s, row[k].s)
         IN IF before THEN <<row>> \o sorted
            ELSE <<Head(sorted)>> \o Insert(row, Tail(sorted), k, asc)

RECURSIVE SortRows(_, _, _)
SortRows(rows, k, asc) ==
    IF rows = <<>> THEN <<>>
    ELSE Insert(rows[Len(rows)], SortRows(SubSeq(rows, 1, Len(rows) - 1), k, asc), k, asc)

Sort(df, name, asc) ==
    IF name \notin Range(df.names) THEN Err("sort: no such column")
    ELSE Ok(Frame(df.names, df.types, SortRows(df.rows, IndexOf(df.names, name), asc)))

(***************************************************************************)
(* describe.rs                                                             *)
(***************************************************************************)
Field(name, dtype) == [name |-> name, dtype |-> dtype]
Fields(df) == [i \in 1..Len(df.names) |-> Field(df.names[i], df.types[i])]

\* enum DescribeMethod; p is the u8 of Percentile, 0 otherwise
Method(kind, p) == [kind |-> kind, p |-> p]

\* the vec! of try_new
Registry ==
    <<Method("Total", 0), Method("NullTotal", 0), Method("Mean", 0),
      Method("Stddev", 0), Method("Min", 0), Method("Max", 0),
      Method("Median", 0), Method("Percentile", 25), Method("Percentile", 50),
      Method("Percentile", 75)>>

\* impl fmt::Display for DescribeMethod
to_string(m) ==
    CASE m.kind = "Total" -> <<"t", "o", "t", "a", "l">>
      [] m.kind = "NullTotal" -> <<"n", "u", "l", "l", "_", "t", "o", "t", "a", "l">>
      [] m.kind = "Mean" -> <<"m", "e", "a", "n">>
      [] m.kind = "Stddev" -> <<"s", "t", "d", "d", "e", "v">>
      [] m.kind = "Min" -> <<"m", "i", "n">>
      [] m.kind = "Max" -> <<"m", "a", "x">>
      [] m.kind = "Median" -> <<"m", "e", "d", "i", "a", "n">>
      [] m.kind = "Percentile" ->
            <<"p", "e", "r", "c", "e", "n", "t", "i", "l", "e", "_">> \o Digits(m.p)

\* NormExpr with the catch-all arm yielding the text itself, not its length
NormExpr_text(field) ==
    LET dt == field.dtype
        expr == IF is_temporal(dt) THEN cast(col(field.name), "Float64")
                ELSE IF is_numeric(dt) THEN col(field.name)
                ELSE IF dt \in {"List", "LargeList"} THEN array_length(col(field.name))
                ELSE cast(col(field.name), "Utf8")
    IN alias(expr, field.name)

\* the match of try_new: the projection of one field
NormExpr(field) ==
    LET dt == field.dtype
        expr == IF is_temporal(dt) THEN cast(col(field.name), "Float64")
                ELSE IF is_numeric(dt) THEN col(field.name)
                ELSE IF dt \in {"List", "LargeList"} THEN array_length(col(field.name))
                ELSE length(cast(col(field.name), "Utf8"))
    IN alias(expr, field.name)

Describer(df, t, ms) == [original |-> df, transformed |-> t, methods |-> ms]

try_new(df) ==
    LET expressions == [i \in 1..Len(df.names) |-> NormExpr(Fields(df)[i])]
        t == Select(df, expressions)
    IN IF t.ok THEN [ok |-> TRUE, self |-> Describer(df, t.df, Registry), cause |-> ""]
       ELSE [ok |-> FALSE, self |-> Describer(NoFrame, NoFrame, <<>>), cause |-> t.cause]

IsNumericField(f) == is_numeric(f.dtype)

\* describe_method without the is_numeric filter
describe_method_unfiltered(fn, df) ==
    LET fields == Fields(df) IN
    Aggregate(df, [i \in 1..Len(fields) |->
                      alias(Apply(fn, col(fields[i].name)), fields[i].name)])

\* macro describe_method!($name, $method)
describe_method(fn, df) ==
    LET fields == SelectSeq(Fields(df), IsNumericField) IN
    Aggregate(df, [i \in 1..Len(fields) |->
                      alias(Apply(fn, col(fields[i].name)), fields[i].name)])

total(df) == describe_method("count", df)
mean(df) == describe_method("avg", df)
std_div(df) == describe_method("stddev", df)
minimum(df) == describe_method("min", df)
maximum(df) == describe_method("max", df)
med(df) == describe_method("median", df)

null_total(df) ==
    LET fields == Fields(df) IN
    Aggregate(df, [i \in 1..Len(fields) |->
                      alias(sum(case_when_true(is_null(col(fields[i].name)), 1, 0)),
                            fields[i].name)])

percentile(df, p) ==
    LET fields == SelectSeq(Fields(df), IsNumericField) IN
    Aggregate(df, [i \in 1..Len(fields) |->
                      alias(approx_percentile_cont(col(fields[i].name), p),
                            fields[i].name)])

\* the match of do_describe
Stat(method, df) ==
    CASE method.kind = "Total" -> total(df)
      [] method.kind = "NullTotal" -> null_total(df)
      [] method.kind = "Mean" -> mean(df)
      [] method.kind = "Stddev" -> std_div(df)
      [] method.kind = "Min" -> minimum(df)
      [] method.kind = "Max" -> maximum(df)
      [] method.kind = "Median" -> med(df)
      [] method.kind = "Percentile" -> percentile(df, method.p)

\* vec![lit(method.to_string()).alias("describe")] extended by the columns
LabelExprs(method, stat_df) ==
    <<alias(lit(to_string(method)), "describe")>>
        \o [i \in 1..Len(stat_df.names) |-> col(stat_df.names[i])]

\* The fold's accumulator: status "none" (None), "some" (Some(df)) or
\* "panic" (an unwrap met an Err).  stats records the column names of each
\* stat_df, at the index of that method.
Acc(status, df, stats, why, at) ==
    [status |-> status, df |-> df, stats |-> stats, cause |-> why, at |-> at]

\* acc.union(stat_df).unwrap(), and the Some(..) the closure returns
Unioned(stats, i, u) ==
    IF ~u.ok THEN Acc("panic", NoFrame, stats, u.cause, i)
    ELSE Acc("some", u.df, stats, "", 0)

\* Labelled with the Some(acc) arm keeping stat_df alone
Labelled_no_union(acc, i, stats, labelled) ==
    IF ~labelled.ok THEN Acc("panic", NoFrame, stats, labelled.cause, i)
    ELSE Acc("some", labelled.df, stats, "", 0)

\* stat_df.select(select_expr).unwrap(), and the match on acc
Labelled(acc, i, stats, labelled) ==
    IF ~labelled.ok THEN Acc("panic", NoFrame, stats, labelled.cause, i)
    ELSE IF acc.status = "none" THEN Acc("some", labelled.df, stats, "", 0)
    ELSE Unioned(stats, i, Union(acc.df, labelled.df))

\* the unwrap() of the method's aggregation, and the labelling select
Aggregated(method, acc, i, stat) ==
    IF ~stat.ok THEN Acc("panic", NoFrame, acc.stats, stat.cause, i)
    ELSE Labelled(acc, i, Append(acc.stats, stat.df.names),
                  Select(stat.df, LabelExprs(method, stat.df)))

\* the closure of the fold, for the method at index i
FoldStep(self, acc, i) ==
    Aggregated(self.methods[i], acc, i, Stat(self.methods[i], self.transformed))

RECURSIVE Fold(_, _, _)
Fold(self, acc, i) ==
    IF i > Len(self.methods) \/ acc.status = "panic" THEN acc
    ELSE Fold(self, FoldStep(self, acc, i), i + 1)

\* ok_or_else with None turned into an empty frame
ok_or_else_empty(r) ==
    IF r.status = "panic" THEN r
    ELSE IF r.status = "none" THEN Acc("ok", Frame(<<"describe">>, <<"Utf8">>, <<>>), r.stats, "", 0)
    ELSE Acc("ok", r.df, r.stats, "", 0)

\* df.ok_or_else(|| anyhow!("No statistics found"))
ok_or_else(r) ==
    IF r.status = "panic" THEN r
    ELSE IF r.status = "none" THEN Acc("err", NoFrame, r.stats, "No statistics found", 0)
    ELSE Acc("ok", r.df, r.stats, "", 0)

\* status: "ok" (Ok(df)), "err" (Err returned) or "panic"
do_describe(self) == ok_or_else(Fold(self, Acc("none", NoFrame, <<>>, "", 0), 1))

\* the match of cast_back: the projection of one field of the report
BackExpr(field) ==
    LET dt == field.dtype
        expr == IF is_temporal(dt) THEN cast(col(field.name), dt)
                ELSE IF dt \in {"List", "LargeList"} THEN cast(col(field.name), "Int32")
                ELSE col(field.name)
    IN alias(expr, field.name)

\* cast_back with the describe field pushed after the original fields
cast_back_describe_last(self, df) ==
    LET fields == Fields(self.original) \o <<Field("describe", "Utf8")>>
        expressions == [i \in 1..Len(fields) |-> BackExpr(fields[i])]
        selected == Select(df, expressions)
    IN IF ~selected.ok THEN selected
       ELSE Sort(selected.df, "describe", TRUE)

\* cast_back without the final sort
cast_back_unsorted(self, df) ==
    LET fields == <<Field("describe", "Utf8")>> \o Fields(self.original)
        expressions == [i \in 1..Len(fields) |-> BackExpr(fields[i])]
    IN Select(df, expressions)

cast_back(self, df) ==
    LET fields == <<Field("describe", "Utf8")>> \o Fields(self.original)
        expressions == [i \in 1..Len(fields) |-> BackExpr(fields[i])]
        selected == Select(df, expressions)
    IN IF ~selected.ok THEN selected
       ELSE Sort(selected.df, "describe", TRUE)

(***************************************************************************)
(* Inputs                                                                  *)
(***************************************************************************)
InputTypes == {"Int32", "Timestamp", "List", "LargeList", "FixedSizeList", "Utf8"}

NamePool == <<"a", "b", "c", "d", "e">>

\* The value in row r of a column of type dt: a number or an instant r, a
\* list 1..r, a fixed-size list of FixedSize elements r, a text of r letters.
SampleValue(dt, r) ==
    IF dt \in ListTypes THEN Cell(0, [j \in 1..r |-> j], <<>>, FALSE, "value", 0)
    ELSE IF dt = "FixedSizeList"
         THEN Cell(0, [j \in 1..FixedSize |-> r], <<>>, FALSE, "value", 0)
    ELSE IF dt = "Utf8" THEN Cell(0, <<>>, [j \in 1..r |-> "a"], FALSE, "value", 0)
    ELSE NumCell(r)

\* The name of column i: NamePool[i], but the first column is named
\* "describe" when d = 1 and "A" when d = 2.
NameOf(i, d) ==
    IF i = 1 /\ d = 1 THEN "describe"
    ELSE IF i = 1 /\ d = 2 THEN "A"
    ELSE NamePool[i]

\* The first (z + i - 1) % (n + 1) rows of column i are null, so the columns
\* of one dataset differ in their null counts.
NullsOf(i, n, z) == (z + i - 1) % (n + 1)

\* A dataset of k columns and n rows.
Dataset(k, d, types, n, z) ==
    Frame([i \in 1..k |-> NameOf(i, d)],
          [i \in 1..k |-> types[i]],
          [r \in 1..n |-> [i \in 1..k |->
              IF r <= NullsOf(i, n, z) THEN NullCell ELSE SampleValue(types[i], r)]])

Datasets ==
    {Dataset(sh[1], sh[2], types, sh[3], sh[4]) :
        sh \in {x \in (0..MaxCols) \X (0..2) \X (0..MaxRows) \X (0..MaxRows) :
                    (x[1] = 0 => x[2] = 0) /\ x[4] <= x[3]},
        types \in [1..MaxCols -> InputTypes]}

\* Method lists other than the registry of try_new.
OtherMethodLists == {<<>>, Reverse(Registry)}

Helpers == {"mean", "std_div", "minimum", "maximum", "med", "percentile"}

Helper(h, df) ==
    CASE h = "mean" -> mean(df)
      [] h = "std_div" -> std_div(df)
      [] h = "minimum" -> minimum(df)
      [] h = "maximum" -> maximum(df)
      [] h = "med" -> med(df)
      [] h = "percentile" -> percentile(df, 50)

(***************************************************************************)
(* The state machine                                                       *)
(***************************************************************************)
Init ==
    /\ input \in Datasets
    /\ pc = "start"
    /\ original = NoFrame
    /\ transformed = NoFrame
    /\ methods = <<>>
    /\ folded = NoFrame
    /\ statNames = <<>>
    /\ report = NoFrame
    /\ prev = <<>>
    /\ cause = ""
    /\ helperOut = Err("")

Self == Describer(original, transformed, methods)

\* DataFrameDescriber::try_new(input)
TryNew ==
    /\ pc = "start"
    /\ LET r == try_new(input) IN
        /\ pc' = IF r.ok THEN "constructed" ELSE "new_failed"
        /\ original' = r.self.original
        /\ transformed' = r.self.transformed
        /\ methods' = r.self.methods
        /\ cause' = r.cause
    /\ UNCHANGED <<input, folded, statNames, report, prev, helperOut>>

\* The same describer with another methods vector.
WithMethods ==
    /\ pc = "start"
    /\ \E ms \in OtherMethodLists :
        LET r == try_new(input) IN
        /\ pc' = IF r.ok THEN "constructed" ELSE "new_failed"
        /\ original' = r.self.original
        /\ transformed' = r.self.transformed
        /\ methods' = IF r.ok THEN ms ELSE <<>>
        /\ cause' = r.cause
    /\ UNCHANGED <<input, folded, statNames, report, prev, helperOut>>

\* describe(), up to the return of do_describe
DoDescribe ==
    /\ pc = "constructed"
    /\ LET r == do_describe(Self) IN
        /\ pc' = CASE r.status = "ok" -> "folded"
                   [] r.status = "err" -> "failed"
                   [] r.status = "panic" -> "panicked"
        /\ folded' = r.df
        /\ statNames' = r.stats
        /\ cause' = r.cause
    /\ report' = NoFrame
    /\ UNCHANGED <<input, original, transformed, methods, prev, helperOut>>

\* describe(), self.cast_back(df)
CastBack ==
    /\ pc = "folded"
    /\ LET r == cast_back(Self, folded) IN
        /\ pc' = IF r.ok THEN "returned" ELSE "failed"
        /\ report' = r.df
        /\ cause' = r.cause
    /\ UNCHANGED <<input, original, transformed, methods, folded, statNames, prev,
                   helperOut>>

\* The caller calls describe() once more on the same describer.
DescribeAgain ==
    /\ pc \in {"returned", "failed"}
    /\ pc' = "constructed"
    /\ prev' = IF pc = "returned" THEN <<report>> ELSE prev
    /\ folded' = NoFrame
    /\ statNames' = <<>>
    /\ report' = NoFrame
    /\ cause' = ""
    /\ UNCHANGED <<input, original, transformed, methods, helperOut>>

Next == TryNew \/ WithMethods \/ DoDescribe \/ CastBack \/ DescribeAgain

Spec == Init /\ [][Next]_vars

\* A helper called directly on a dataset, as tests::test_percentile does.
CallHelper ==
    /\ pc = "start"
    /\ \E h \in Helpers :
        /\ helperOut' = Helper(h, input)
        /\ cause' = h
    /\ pc' = "helper_returned"
    /\ UNCHANGED <<input, original, transformed, methods, folded, statNames, report,
                   prev>>

NextHelpers == CallHelper

SpecHelpers == Init /\ [][NextHelpers]_vars

TypeOK == pc \in {"start", "constructed", "new_failed", "folded", "failed",
                  "panicked", "returned", "helper_returned"}

(***************************************************************************)
(* Properties                                                              *)
(***************************************************************************)
LabelsOf(df) ==
    [r \in 1..Len(df.rows) |-> df.rows[r][IndexOf(df.names, "describe")].s]

\* The row of df labelled by method m.
RowOf(df, m) ==
    df.rows[CHOOSE r \in 1..Len(df.rows) :
                df.rows[r][IndexOf(df.names, "describe")].s = to_string(m)]

HasRow(df, m) == to_string(m) \in Range(LabelsOf(df))

NullCount(df, i) == Cardinality({r \in 1..Len(df.rows) : df.rows[r][i].isnull})

ListValued(dt) == dt \in ListTypes \cup {"FixedSizeList"}

NumericNames(df) ==
    LET nf == SelectSeq(Fields(df), IsNumericField) IN [i \in 1..Len(nf) |-> nf[i].name]

\* C1: the columns of a returned report are `describe` followed by the
\* original field names in the original order, and every row has exactly
\* these columns.
C1_ReportColumns ==
    pc = "returned" =>
        /\ report.names = <<"describe">> \o original.names
        /\ \A r \in 1..Len(report.rows) : Len(report.rows[r]) = Len(report.names)

C1_Witness ==
    /\ pc = "returned"
    /\ Len(original.names) >= 2
    /\ \E i, j \in 1..Len(original.types) :
          is_numeric(original.types[i]) /\ ListValued(original.types[j])

\* C2: a returned report has one row per configured method, ten for the
\* registry of try_new, and no report is exposed unless describe() returned.
C2_RowPerMethod ==
    /\ pc = "returned" =>
          /\ Len(report.rows) = Len(methods)
          /\ methods = Registry => Len(report.rows) = 10
    /\ pc # "returned" => report = NoFrame

C2_Witness ==
    pc = "returned" /\ methods = Registry /\ Len(original.names) >= 1

\* C3 (as claimed): a failing stage of describe() is returned as an error
\* value; describe() never panics.
C3_NoPanic == pc # "panicked"

\* C4: with an empty method list describe() fails with "No statistics
\* found" and returns no report; a describe() that succeeds had methods.
C4_EmptyMethods ==
    /\ pc \in {"folded", "returned"} => methods # <<>>
    /\ (methods = <<>> /\ pc \in {"folded", "returned", "failed", "panicked"}) =>
          /\ pc = "failed"
          /\ cause = "No statistics found"
          /\ report = NoFrame

C4_Witness ==
    pc = "failed" /\ methods = <<>> /\ cause = "No statistics found"
        /\ Len(original.names) >= 1

ExpectedOrder ==
    << <<"m", "a", "x">>,
       <<"m", "e", "a", "n">>,
       <<"m", "e", "d", "i", "a", "n">>,
       <<"m", "i", "n">>,
       <<"n", "u", "l", "l", "_", "t", "o", "t", "a", "l">>,
       <<"p", "e", "r", "c", "e", "n", "t", "i", "l", "e", "_", "2", "5">>,
       <<"p", "e", "r", "c", "e", "n", "t", "i", "l", "e", "_", "5", "0">>,
       <<"p", "e", "r", "c", "e", "n", "t", "i", "l", "e", "_", "7", "5">>,
       <<"s", "t", "d", "d", "e", "v">>,
       <<"t", "o", "t", "a", "l">> >>

\* C5: the rows of a returned report ascend by label; for the built-in
\* methods, folded in either order, the order is max, mean, median, min,
\* null_total, percentile_25, percentile_50, percentile_75, stddev, total;
\* and a further call returns the rows in the same order.
C5_SortedByLabel ==
    pc = "returned" =>
        /\ \A i, j \in 1..Len(report.rows) :
              i < j => StrLess(LabelsOf(report)[i], LabelsOf(report)[j])
        /\ methods \in {Registry, Reverse(Registry)} => LabelsOf(report) = ExpectedOrder
        /\ prev # <<>> => LabelsOf(prev[1]) = LabelsOf(report)

C5_Witness ==
    pc = "returned" /\ prev # <<>> /\ methods = Reverse(Registry)

\* The value the claimed rules give the cell c of a column of type dt.
ClaimedNorm(c, dt) ==
    IF c.isnull THEN NullCell
    ELSE IF is_temporal(dt) \/ is_numeric(dt) THEN NumCell(c.v)
    ELSE IF ListValued(dt) THEN NumCell(Len(c.list))
    ELSE NumCell(Len(ToText(c, dt)))

\* C6 (as claimed): every field is normalised by the first matching rule of
\* temporal -> numeric cast, numeric -> identity, list-valued (fixed-size
\* lists included) -> list length, other -> length of the text form.
C6_NormalisedAsClaimed ==
    pc = "constructed" =>
        \A r \in 1..Len(original.rows) : \A i \in 1..Len(original.names) :
            transformed.rows[r][i] = ClaimedNorm(original.rows[r][i], original.types[i])

\* C7 (as claimed): in a returned report with the total and null_total
\* rows, every column's total is N - k and its null_total is k, for the N
\* rows and k nulls of that column.
C7_TotalsAsClaimed ==
    (pc = "returned" /\ HasRow(report, Registry[1]) /\ HasRow(report, Registry[2])) =>
        \A i \in 1..Len(original.names) :
            LET t == RowOf(report, Registry[1])[i + 1]
                n == RowOf(report, Registry[2])[i + 1]
            IN /\ ~t.isnull /\ t.v = Len(original.rows) - NullCount(original, i)
               /\ ~n.isnull /\ n.v = NullCount(original, i)

\* C8 (as claimed): in a returned report a temporal field's column has the
\* field's type, a list-valued field's column (fixed-size lists included)
\* is Int32, and any other column keeps the type the fold gave it.
C8_TypesAsClaimed ==
    pc = "returned" =>
        \A i \in 1..Len(original.names) :
            LET dt == original.types[i] IN
            report.types[i + 1] =
                IF is_temporal(dt) THEN dt
                ELSE IF ListValued(dt) THEN "Int32"
                ELSE folded.types[i + 1]

OneRowOf(res, names) ==
    /\ res.ok
    /\ Len(res.df.rows) = 1
    /\ res.df.names = names
    /\ Len(res.df.rows[1]) = Len(names)

C10_AllNumeric ==
    pc \in {"constructed", "folded", "returned", "failed", "panicked"} =>
        /\ transformed.names = original.names
        /\ \A i \in 1..Len(transformed.types) : is_numeric(transformed.types[i])
        /\ \A j \in 1..Len(statNames) : statNames[j] = original.names
        /\ cause # "union: different number of columns"

C10_Witness ==
    /\ pc = "folded"
    /\ Len(statNames) = Len(Registry)
    /\ \E i, j \in 1..Len(original.types) :
          original.types[i] = "Utf8" /\ is_temporal(original.types[j])

====
